---- MODULE Spec2Model ----
(***************************************************************************)
(* Model of astrbot_plugin_splitter (src/main.py): MessageSplitterPlugin.  *)
(*                                                                         *)
(* A text is a sequence of one-character strings.  "a" is an ordinary      *)
(* letter, "n" is the newline character and "s" is the space character.    *)
(* A regular expression is kept as its source string (the configuration    *)
(* value); Compile gives its structure, and re_split / re_sub are          *)
(* computed by a backtracking matcher the way Python's re module does.     *)
(***************************************************************************)
EXTENDS Integers, Sequences, FiniteSets, TLC

VARIABLES
    pc,                     \* position of the pass (the await it is suspended at)
    has_result,             \* event.get_result() is not None
    chain,                  \* result.chain, the reply chain owned by the host
    split_regex,            \* config["split_regex"]
    clean_regex,            \* config["clean_regex"]
    full_text_for_history,  \* local of on_decorating_result
    segments,               \* local of on_decorating_result / result of split_chain
    idx,                    \* loop variable i of the delivery loop (1-based)
    stopped,                \* event.stop_event() has been called
    log,                    \* transport calls and delays, in the order they completed
    store,                  \* the conversation manager's state for this origin
    cid,                    \* local of save_history
    history_list,           \* local of save_history, argument of update_conversation
    orig,                   \* the chain as the host produced it (history variable)
    store0,                 \* the store before the pass (history variable)
    cleaned_chain,          \* local of on_decorating_result
    other                   \* a second pass for the same origin: its event and locals

vars == <<pc, has_result, chain, split_regex, clean_regex, full_text_for_history,
          segments, idx, stopped, log, store, cid, history_list, orig, store0,
          cleaned_chain, other>>

----------------------------------------------------------------------------
(* Bounds of the model *)

\* SpecSplit: number of items of a chain, and characters of text in a chain
MaxItems == 3
MaxChars == 3
\* Spec: the same for the chain of a whole pass
PassItems == 3
PassChars == 3
\* FairSpec: characters of text in the chain of a pass
FairChars == 2

SplitAlphabet == {"a", "n", "s"}
PassAlphabet == {"a", "n"}

----------------------------------------------------------------------------
(* Message components *)

Plain(t) == [kind |-> "Plain", text |-> t, payload |-> 0]
Image(k) == [kind |-> "Image", text |-> <<>>, payload |-> k]

IsPlain(component) == component.kind = "Plain"

\* Python truthiness of a str or a list: non-empty
Truthy(s) == s # <<>>

RECURSIVE Concat(_)
Concat(ss) == IF ss = <<>> THEN <<>> ELSE Head(ss) \o Concat(Tail(ss))

----------------------------------------------------------------------------
(* Regular expressions *)

Newline == {"n"}
Whitespace == {"n", "s"}

One(cls) == [cls |-> cls, lo |-> 1, many |-> FALSE]
Star(cls) == [cls |-> cls, lo |-> 0, many |-> TRUE]
Plus(cls) == [cls |-> cls, lo |-> 1, many |-> TRUE]

\* re.compile: the patterns of the model, by source string.
\* valid: the pattern compiles; group: the whole pattern is one capturing group.
Compile(pattern) ==
    CASE pattern = "\\n\\s*\\n" ->
            [valid |-> TRUE, group |-> FALSE,
             atoms |-> <<One(Newline), Star(Whitespace), One(Newline)>>]
      [] pattern = "\\n" ->
            [valid |-> TRUE, group |-> FALSE, atoms |-> <<One(Newline)>>]
      [] pattern = "(\\n)" ->
            [valid |-> TRUE, group |-> TRUE, atoms |-> <<One(Newline)>>]
      [] pattern = "\\n*" ->
            [valid |-> TRUE, group |-> FALSE, atoms |-> <<Star(Newline)>>]
      [] pattern = "" ->
            [valid |-> TRUE, group |-> FALSE, atoms |-> <<>>]
      [] pattern = "a+" ->
            [valid |-> TRUE, group |-> FALSE, atoms |-> <<Plus({"a"})>>]
      [] pattern = "\\s+" ->
            [valid |-> TRUE, group |-> FALSE, atoms |-> <<Plus(Whitespace)>>]
      [] pattern = "(" ->
            [valid |-> FALSE, group |-> FALSE, atoms |-> <<>>]

\* number of consecutive characters of cls in t from position i on
RECURSIVE RunLen(_, _, _)
RunLen(cls, t, i) ==
    IF i <= Len(t) /\ t[i] \in cls THEN 1 + RunLen(cls, t, i + 1) ELSE 0

\* the ends (exclusive) of the matches of atoms[k..] that start at i, in the
\* order the backtracking matcher tries them (greedy: longest repetition first)
RECURSIVE MatchEnds(_, _, _, _)
RECURSIVE TryCounts(_, _, _, _, _)
MatchEnds(atoms, k, t, i) ==
    IF k > Len(atoms) THEN <<i>>
    ELSE LET run == RunLen(atoms[k].cls, t, i)
             hi == IF atoms[k].many THEN run ELSE IF run >= 1 THEN 1 ELSE 0
         IN TryCounts(atoms, k, t, i, hi)
TryCounts(atoms, k, t, i, c) ==
    IF c < atoms[k].lo THEN <<>>
    ELSE MatchEnds(atoms, k + 1, t, i + c) \o TryCounts(atoms, k, t, i, c - 1)

\* the scanner behind re.split and re.sub: the spans <<start, end>> of the
\* successive non-overlapping matches from pos on; after an empty match the
\* next match at the same position must be non-empty (must_advance)
RECURSIVE Scan(_, _, _, _)
Scan(atoms, t, pos, must_advance) ==
    IF pos > Len(t) + 1 THEN <<>>
    ELSE LET ends == SelectSeq(MatchEnds(atoms, 1, t, pos),
                               LAMBDA e : ~must_advance \/ e > pos)
         IN IF ends = <<>> THEN Scan(atoms, t, pos + 1, FALSE)
            ELSE <<<<pos, ends[1]>>>> \o Scan(atoms, t, ends[1], ends[1] = pos)

\* the pieces of t between the spans, each followed by the text of the
\* capturing group when the pattern has one, and the rest of t at the end
RECURSIVE Pieces(_, _, _, _)
Pieces(t, spans, last, group) ==
    IF spans = <<>> THEN <<SubSeq(t, last, Len(t))>>
    ELSE LET m == Head(spans)
         IN <<SubSeq(t, last, m[1] - 1)>>
            \o (IF group THEN <<SubSeq(t, m[1], m[2] - 1)>> ELSE <<>>)
            \o Pieces(t, Tail(spans), m[2], group)

\* re.split(pattern, text), for a pattern that compiles
re_split(pattern, text) ==
    LET p == Compile(pattern)
    IN Pieces(text, Scan(p.atoms, text, 1, FALSE), 1, p.group)

\* re.sub(pattern, "", text), for a pattern that compiles
re_sub(pattern, text) ==
    LET p == Compile(pattern)
    IN Concat(Pieces(text, Scan(p.atoms, text, 1, FALSE), 1, FALSE))

----------------------------------------------------------------------------
(* Input domains *)

SplitPayloads == {1, 2}
PassPayloads == {1}

RECURSIVE Texts(_, _)
Texts(alphabet, len) ==
    IF len = 0 THEN {<<>>}
    ELSE {Append(t, c) : t \in Texts(alphabet, len - 1), c \in alphabet}

\* the chains of at most n components whose texts have at most b characters in all
RECURSIVE Chains(_, _, _, _)
Chains(alphabet, payloads, n, b) ==
    IF n = 0 THEN {<<>>}
    ELSE {<<>>}
         \cup UNION {{<<Plain(t)>> \o c : t \in Texts(alphabet, l),
                                          c \in Chains(alphabet, payloads, n - 1, b - l)} : l \in 0..b}
         \cup {<<Image(k)>> \o c : k \in payloads, c \in Chains(alphabet, payloads, n - 1, b)}

SplitPatterns == {"\\n\\s*\\n", "\\n", "(\\n)", "\\n*", "", "("}
PassSplitPatterns == {"\\n\\s*\\n", "\\n", "("}
PassCleanPatterns == {"", "a+", "("}

----------------------------------------------------------------------------
(* split_chain *)

HasPlain(c) == \E k \in 1..Len(c) : IsPlain(c[k])

\* MidSegments without the test of line 155: an empty middle part is a segment
RECURSIVE MidSegments_KeepsEmpty(_)
MidSegments_KeepsEmpty(mid_parts) ==
    IF mid_parts = <<>> THEN <<>>
    ELSE <<<<Plain(Head(mid_parts))>>>> \o MidSegments_KeepsEmpty(Tail(mid_parts))

\* the parts[1:-1] loop: one single-item segment for every non-empty middle part
RECURSIVE MidSegments(_)
MidSegments(mid_parts) ==
    IF mid_parts = <<>> THEN <<>>
    ELSE (IF Truthy(Head(mid_parts)) THEN <<<<Plain(Head(mid_parts))>>>> ELSE <<>>)
         \o MidSegments(Tail(mid_parts))

\* SplitStep where a component that is no Plain closes the buffer and is a
\* segment of its own
SplitStep_ImageOwnUnit(component, pattern, segs, current_buffer) ==
    IF IsPlain(component)
    THEN LET parts == re_split(pattern, component.text)
         IN IF Len(parts) = 1
            THEN [segments |-> segs, current_buffer |-> Append(current_buffer, component)]
            ELSE LET first == parts[1]
                     last == parts[Len(parts)]
                     buf1 == IF Truthy(first) THEN Append(current_buffer, Plain(first))
                             ELSE current_buffer
                     segs1 == IF Truthy(buf1) THEN Append(segs, buf1) ELSE segs
                     segs2 == segs1 \o MidSegments(SubSeq(parts, 2, Len(parts) - 1))
                 IN [segments |-> segs2,
                     current_buffer |-> IF Truthy(last) THEN <<Plain(last)>> ELSE <<>>]
    ELSE [segments |-> (IF Truthy(current_buffer) THEN Append(segs, current_buffer)
                        ELSE segs) \o <<<<component>>>>,
          current_buffer |-> <<>>]

\* SplitStep with the buffer pushed only when the first part is non-empty
SplitStep_DropsBuffer(component, pattern, segs, current_buffer) ==
    IF IsPlain(component)
    THEN LET parts == re_split(pattern, component.text)
         IN IF Len(parts) = 1
            THEN [segments |-> segs, current_buffer |-> Append(current_buffer, component)]
            ELSE LET first == parts[1]
                     last == parts[Len(parts)]
                     segs1 == IF Truthy(first)
                              THEN Append(segs, Append(current_buffer, Plain(first)))
                              ELSE segs
                     segs2 == segs1 \o MidSegments(SubSeq(parts, 2, Len(parts) - 1))
                 IN [segments |-> segs2,
                     current_buffer |-> IF Truthy(last) THEN <<Plain(last)>> ELSE <<>>]
    ELSE [segments |-> segs, current_buffer |-> Append(current_buffer, component)]

\* one iteration of the loop over the chain: [segments, current_buffer] after it
SplitStep(component, pattern, segs, current_buffer) ==
    IF IsPlain(component)
    THEN LET parts == re_split(pattern, component.text)
         IN IF Len(parts) = 1
            THEN [segments |-> segs, current_buffer |-> Append(current_buffer, component)]
            ELSE LET first == parts[1]
                     last == parts[Len(parts)]
                     buf1 == IF Truthy(first) THEN Append(current_buffer, Plain(first))
                             ELSE current_buffer
                     segs1 == IF Truthy(buf1) THEN Append(segs, buf1) ELSE segs
                     segs2 == segs1 \o MidSegments(SubSeq(parts, 2, Len(parts) - 1))
                 IN [segments |-> segs2,
                     current_buffer |-> IF Truthy(last) THEN <<Plain(last)>> ELSE <<>>]
    ELSE [segments |-> segs, current_buffer |-> Append(current_buffer, component)]

RECURSIVE SplitLoop(_, _, _, _)
SplitLoop(c, pattern, segs, current_buffer) ==
    IF c = <<>>
    THEN IF Truthy(current_buffer) THEN Append(segs, current_buffer) ELSE segs
    ELSE LET st == SplitStep(Head(c), pattern, segs, current_buffer)
         IN SplitLoop(Tail(c), pattern, st.segments, st.current_buffer)

\* split_chain(chain, pattern), when re.split does not raise
split_chain(c, pattern) == SplitLoop(c, pattern, <<>>, <<>>)

\* re.split compiles the pattern at the first Plain component: re.error
SplitRaises(c, pattern) == HasPlain(c) /\ ~Compile(pattern).valid

----------------------------------------------------------------------------
(* on_decorating_result: the cleaning loop *)

\* CleanText with re.sub(..., count=1): only the first match is removed
CleanText_FirstOnly(clean_pattern, text) ==
    IF clean_pattern # ""
    THEN LET spans == Scan(Compile(clean_pattern).atoms, text, 1, FALSE)
         IN IF spans = <<>> THEN text
            ELSE SubSeq(text, 1, spans[1][1] - 1) \o SubSeq(text, spans[1][2], Len(text))
    ELSE text

CleanText(clean_pattern, text) ==
    IF clean_pattern # "" THEN re_sub(clean_pattern, text) ELSE text

\* FullText taken from the text after cleaning
RECURSIVE FullText_AfterClean(_)
FullText_AfterClean(c) ==
    IF c = <<>> THEN <<>>
    ELSE (IF IsPlain(Head(c)) THEN CleanText(clean_regex, Head(c).text) ELSE <<>>)
         \o FullText_AfterClean(Tail(c))

RECURSIVE FullText(_)
FullText(c) ==
    IF c = <<>> THEN <<>>
    ELSE (IF IsPlain(Head(c)) THEN Head(c).text ELSE <<>>) \o FullText(Tail(c))

\* CleanedChain without the test of line 45: an emptied text is kept
RECURSIVE CleanedChain_KeepsEmpty(_, _)
CleanedChain_KeepsEmpty(c, clean_pattern) ==
    IF c = <<>> THEN <<>>
    ELSE LET component == Head(c)
             rest == CleanedChain_KeepsEmpty(Tail(c), clean_pattern)
         IN IF IsPlain(component)
            THEN <<Plain(CleanText(clean_pattern, component.text))>> \o rest
            ELSE <<component>> \o rest

RECURSIVE CleanedChain(_, _)
CleanedChain(c, clean_pattern) ==
    IF c = <<>> THEN <<>>
    ELSE LET component == Head(c)
             rest == CleanedChain(Tail(c), clean_pattern)
         IN IF IsPlain(component)
            THEN LET text == CleanText(clean_pattern, component.text)
                 IN IF Truthy(text) THEN <<Plain(text)>> \o rest ELSE rest
            ELSE <<component>> \o rest

\* re.sub compiles the pattern at the first Plain component: re.error
CleanRaises(c, clean_pattern) ==
    clean_pattern # "" /\ HasPlain(c) /\ ~Compile(clean_pattern).valid

----------------------------------------------------------------------------
(* The conversation store (conversation_manager) *)

AssistantRecord(content) == [role |-> "assistant", content |-> content]
UserRecord == [role |-> "user", content |-> <<"a">>]

\* conversation.history as stored: None, the JSON text of a list, the JSON text
\* of a value that is no list, or a text that is not JSON (val: the records
\* written in it, here the text of a list cut off before its end)
HistoryNone == [fmt |-> "none", val |-> <<>>]
JsonList(l) == [fmt |-> "list", val |-> l]
JsonObject == [fmt |-> "object", val |-> <<>>]
NotJson == [fmt |-> "garbage", val |-> <<UserRecord>>]

\* json.loads(conversation.history): the decoded list, a decoded value that is
\* no list, or JSONDecodeError
json_loads(h) ==
    CASE h.fmt = "list" -> [error |-> FALSE, is_list |-> TRUE, val |-> h.val]
      [] h.fmt = "object" -> [error |-> FALSE, is_list |-> FALSE, val |-> <<>>]
      [] OTHER -> [error |-> TRUE, is_list |-> FALSE, val |-> <<>>]

\* cid "": the origin has no current conversation; exists: get_conversation finds it
Stores ==
    {[cid |-> "", exists |-> FALSE, history |-> HistoryNone],
     [cid |-> "c1", exists |-> FALSE, history |-> HistoryNone]}
    \cup {[cid |-> "c1", exists |-> TRUE, history |-> h] :
            h \in {HistoryNone, JsonList(<<>>), JsonList(<<UserRecord>>), JsonObject,
                   NotJson}}

----------------------------------------------------------------------------
(* One pass of on_decorating_result, from await to await *)

\* the second pass when there is none
NoOther ==
    [pc |-> "idle", has_result |-> FALSE, chain |-> <<>>, orig |-> <<>>,
     cleaned_chain |-> <<>>, full_text_for_history |-> <<>>, segments |-> <<>>,
     idx |-> 0, stopped |-> FALSE, log |-> <<>>, cid |-> "", history_list |-> <<>>]

InitWith(chains) ==
    /\ pc = "start"
    /\ cleaned_chain = <<>>
    /\ other = NoOther
    /\ has_result \in BOOLEAN
    /\ chain \in (IF has_result THEN chains ELSE {<<>>})
    /\ orig = chain
    /\ split_regex \in PassSplitPatterns
    /\ clean_regex \in PassCleanPatterns
    /\ store \in Stores
    /\ store0 = store
    /\ full_text_for_history = <<>>
    /\ segments = <<>>
    /\ idx = 0
    /\ stopped = FALSE
    /\ log = <<>>
    /\ cid = ""
    /\ history_list = <<>>

Init == InitWith(Chains(PassAlphabet, PassPayloads, PassItems, PassChars))

\* a completed call of a collaborator: the conversation manager, the transport
\* (send_message of segment i with chain mc) or asyncio.sleep
StoreEvent(op, ok) == [op |-> op, i |-> 0, mc |-> <<>>, ok |-> ok]
SendEvent(i, mc, ok) == [op |-> "send_message", i |-> i, mc |-> mc, ok |-> ok]
SleepEvent(i) == [op |-> "sleep", i |-> i, mc |-> <<>>, ok |-> TRUE]

\* the enumerate index of the next segment the loop does not skip
\* (if not segment_chain: continue), Len(segments) + 1 when there is none
RECURSIVE NextSegment(_, _)
NextSegment(segs, j) ==
    IF j > Len(segs) THEN j
    ELSE IF Truthy(segs[j]) THEN j ELSE NextSegment(segs, j + 1)

\* Deliver with result.chain.clear() and stop_event() ahead of the loop
Deliver_ClearsEarly(j) ==
    LET k == NextSegment(segments', j)
    IN /\ pc' = IF k <= Len(segments') THEN "send_message" ELSE "done"
       /\ idx' = k
       /\ chain' = <<>>
       /\ stopped' = TRUE

\* Deliver without the call of stop_event
Deliver_NoStop(j) ==
    LET k == NextSegment(segments', j)
    IN IF k <= Len(segments')
       THEN /\ pc' = "send_message"
            /\ idx' = k
            /\ UNCHANGED <<chain, stopped>>
       ELSE /\ pc' = "done"
            /\ idx' = k
            /\ chain' = <<>>
            /\ UNCHANGED stopped

\* the delivery loop resumed at index j: the next send_message is called, or
\* the loop is over and the original chain is cleared and the event stopped
Deliver(j) ==
    LET k == NextSegment(segments', j)
    IN IF k <= Len(segments')
       THEN /\ pc' = "send_message"
            /\ idx' = k
            /\ UNCHANGED <<chain, stopped>>
       ELSE /\ pc' = "done"
            /\ idx' = k
            /\ chain' = <<>>
            /\ stopped' = TRUE

\* IsNoOp without the is_cleaned operand
IsNoOp_IgnoresClean(segs, is_cleaned) == Len(segs) <= 1

\* IsNoOp with < for <=
IsNoOp_Strict(segs, is_cleaned) == Len(segs) < 1 /\ ~is_cleaned

\* line 58: nothing to split and no clean pattern configured
IsNoOp(segs, is_cleaned) == Len(segs) <= 1 /\ ~is_cleaned

\* lines 22-66: up to the first await of save_history
OnDecoratingResult ==
    /\ pc = "start"
    /\ UNCHANGED <<other, has_result, split_regex, clean_regex, store, store0, orig, log,
                   cid, history_list>>
    /\ IF ~has_result \/ ~Truthy(chain)
       THEN /\ pc' = "returned_early"
            /\ UNCHANGED <<chain, full_text_for_history, cleaned_chain, segments, idx,
                           stopped>>
       ELSE IF CleanRaises(chain, clean_regex)
                 \/ SplitRaises(CleanedChain(chain, clean_regex), split_regex)
       THEN /\ pc' = "raised"
            /\ UNCHANGED <<chain, full_text_for_history, cleaned_chain, segments, idx,
                           stopped>>
       ELSE LET cleaned == CleanedChain(chain, clean_regex)
                segs == split_chain(cleaned, split_regex)
                is_cleaned == clean_regex # ""
            IN /\ full_text_for_history' = FullText(chain)
               /\ cleaned_chain' = cleaned
               /\ segments' = segs
               /\ UNCHANGED <<chain, idx, stopped>>
               /\ IF IsNoOp(segs, is_cleaned)
                  THEN pc' = "returned_noop"
                  ELSE pc' = "get_curr_conversation_id"

\* lines 95-100: get_curr_conversation_id returns or raises
GetCurrConversationId ==
    /\ pc = "get_curr_conversation_id"
    /\ UNCHANGED <<other, cleaned_chain, has_result, split_regex, clean_regex, store, store0, orig,
                   full_text_for_history, segments, history_list>>
    /\ \E raises \in BOOLEAN :
          /\ log' = Append(log, StoreEvent("get_curr_conversation_id", ~raises))
          /\ IF raises
             THEN /\ UNCHANGED cid
                  /\ Deliver(1)
             ELSE /\ cid' = store.cid
                  /\ IF store.cid = ""
                     THEN Deliver(1)
                     ELSE /\ pc' = "get_conversation"
                          /\ UNCHANGED <<chain, idx, stopped>>

\* lines 108-122: history_list after decoding and the append
\* (error: a decoded value that is no list has no append)
BuildHistory(h, content) ==
    IF h.fmt = "none"
    THEN [error |-> FALSE, list |-> <<AssistantRecord(content)>>]
    ELSE LET decoded == json_loads(h)
         IN IF decoded.error
            THEN [error |-> FALSE, list |-> <<AssistantRecord(content)>>]
            ELSE IF decoded.is_list
            THEN [error |-> FALSE, list |-> Append(decoded.val, AssistantRecord(content))]
            ELSE [error |-> TRUE, list |-> <<>>]

\* GetConversation whose return for a missing conversation leaves the handler
GetConversation_AbortsPass ==
    /\ pc = "get_conversation"
    /\ UNCHANGED <<other, cleaned_chain, has_result, split_regex, clean_regex, store, store0, orig,
                   full_text_for_history, segments, cid>>
    /\ \E raises \in BOOLEAN :
          /\ log' = Append(log, StoreEvent("get_conversation", ~raises))
          /\ IF raises
             THEN /\ UNCHANGED history_list
                  /\ Deliver(1)
             ELSE IF ~store.exists
             THEN /\ pc' = "done"
                  /\ UNCHANGED <<history_list, chain, idx, stopped>>
             ELSE LET built == BuildHistory(store.history, full_text_for_history)
                  IN IF built.error
                     THEN /\ UNCHANGED history_list
                          /\ Deliver(1)
                     ELSE /\ history_list' = built.list
                          /\ pc' = "update_conversation"
                          /\ UNCHANGED <<chain, idx, stopped>>

\* lines 103-125: get_conversation returns or raises, up to update_conversation
GetConversation ==
    /\ pc = "get_conversation"
    /\ UNCHANGED <<other, cleaned_chain, has_result, split_regex, clean_regex, store, store0, orig,
                   full_text_for_history, segments, cid>>
    /\ \E raises \in BOOLEAN :
          /\ log' = Append(log, StoreEvent("get_conversation", ~raises))
          /\ IF raises \/ ~store.exists
             THEN /\ UNCHANGED history_list
                  /\ Deliver(1)
             ELSE LET built == BuildHistory(store.history, full_text_for_history)
                  IN IF built.error
                     THEN /\ UNCHANGED history_list
                          /\ Deliver(1)
                     ELSE /\ history_list' = built.list
                          /\ pc' = "update_conversation"
                          /\ UNCHANGED <<chain, idx, stopped>>

\* UpdateConversation outside the try: the error reaches the host
UpdateConversation_Propagates ==
    /\ pc = "update_conversation"
    /\ UNCHANGED <<other, cleaned_chain, has_result, split_regex, clean_regex, store0, orig,
                   full_text_for_history, segments, cid, history_list>>
    /\ \E raises \in BOOLEAN :
          /\ log' = Append(log, StoreEvent("update_conversation", ~raises))
          /\ IF raises
             THEN /\ pc' = "raised"
                  /\ UNCHANGED <<store, chain, idx, stopped>>
             ELSE /\ store' = [store EXCEPT !.history = JsonList(history_list)]
                  /\ Deliver(1)

\* lines 125-131: update_conversation stores the list or raises
UpdateConversation ==
    /\ pc = "update_conversation"
    /\ UNCHANGED <<other, cleaned_chain, has_result, split_regex, clean_regex, store0, orig,
                   full_text_for_history, segments, cid, history_list>>
    /\ \E raises \in BOOLEAN :
          /\ log' = Append(log, StoreEvent("update_conversation", ~raises))
          /\ store' = IF raises THEN store
                      ELSE [store EXCEPT !.history = JsonList(history_list)]
          /\ Deliver(1)

\* SendMessage with the try around the loop: a failure ends the delivery
SendMessage_AbortsOnFailure ==
    /\ pc = "send_message"
    /\ UNCHANGED <<other, cleaned_chain, has_result, split_regex, clean_regex, store, store0, orig,
                   full_text_for_history, segments, cid, history_list>>
    /\ \E ok \in BOOLEAN :
          /\ log' = Append(log, SendEvent(idx, segments[idx], ok))
          /\ IF ok /\ idx < Len(segments)
             THEN /\ pc' = "sleep"
                  /\ UNCHANGED <<chain, idx, stopped>>
             ELSE IF ok THEN Deliver(idx + 1) ELSE Deliver(Len(segments) + 1)

\* lines 73-83: send_message for segment idx returns or raises
SendMessage ==
    /\ pc = "send_message"
    /\ UNCHANGED <<other, cleaned_chain, has_result, split_regex, clean_regex, store, store0, orig,
                   full_text_for_history, segments, cid, history_list>>
    /\ \E ok \in BOOLEAN :
          /\ log' = Append(log, SendEvent(idx, segments[idx], ok))
          /\ IF ok /\ idx < Len(segments)
             THEN /\ pc' = "sleep"
                  /\ UNCHANGED <<chain, idx, stopped>>
             ELSE Deliver(idx + 1)

\* line 81: asyncio.sleep(delay) returns
Sleep ==
    /\ pc = "sleep"
    /\ UNCHANGED <<other, cleaned_chain, has_result, split_regex, clean_regex, store, store0, orig,
                   full_text_for_history, segments, cid, history_list>>
    /\ log' = Append(log, SleepEvent(idx))
    /\ Deliver(idx + 1)

Next ==
    \/ OnDecoratingResult
    \/ GetCurrConversationId
    \/ GetConversation
    \/ UpdateConversation
    \/ SendMessage
    \/ Sleep

Spec == Init /\ [][Next]_vars

\* the pass resumed at the await it is suspended at
Resume ==
    \/ GetCurrConversationId
    \/ GetConversation
    \/ UpdateConversation
    \/ SendMessage
    \/ Sleep

\* every awaited call completes, by returning or by raising, and the event
\* loop then resumes the pass
FairInit == InitWith(Chains(PassAlphabet, PassPayloads, PassItems, FairChars))

FairSpec == FairInit /\ [][Next]_vars /\ WF_vars(Resume)

----------------------------------------------------------------------------
(* split_chain as a function of its arguments *)

InitSplit ==
    /\ pc = "split_chain"
    /\ cleaned_chain = <<>>
    /\ other = NoOther
    /\ has_result = TRUE
    /\ chain \in Chains(SplitAlphabet, SplitPayloads, MaxItems, MaxChars)
    /\ orig = chain
    /\ split_regex \in SplitPatterns
    /\ clean_regex = ""
    /\ store = [cid |-> "", exists |-> FALSE, history |-> HistoryNone]
    /\ store0 = store
    /\ full_text_for_history = <<>>
    /\ segments = <<>>
    /\ idx = 0
    /\ stopped = FALSE
    /\ log = <<>>
    /\ cid = ""
    /\ history_list = <<>>

SplitChain ==
    /\ pc = "split_chain"
    /\ IF SplitRaises(chain, split_regex)
       THEN /\ pc' = "split_raised"
            /\ UNCHANGED segments
       ELSE /\ pc' = "split_returned"
            /\ segments' = split_chain(chain, split_regex)
    /\ UNCHANGED <<has_result, chain, split_regex, clean_regex, full_text_for_history,
                   idx, stopped, log, store, cid, history_list, orig, store0,
                   cleaned_chain, other>>

NextSplit == SplitChain

SpecSplit == InitSplit /\ [][NextSplit]_vars

(***************************************************************************)
(* The cleaning loop alone (lines 32-49), on every chain and clean pattern *)
(***************************************************************************)
CleanPatterns == {"", "a+", "\\s+", "\\n*", "("}

InitClean ==
    /\ pc = "clean_chain"
    /\ cleaned_chain = <<>>
    /\ other = NoOther
    /\ has_result = TRUE
    /\ chain \in Chains(SplitAlphabet, SplitPayloads, MaxItems, MaxChars)
    /\ orig = chain
    /\ split_regex = ""
    /\ clean_regex \in CleanPatterns
    /\ store = [cid |-> "", exists |-> FALSE, history |-> HistoryNone]
    /\ store0 = store
    /\ full_text_for_history = <<>>
    /\ segments = <<>>
    /\ idx = 0
    /\ stopped = FALSE
    /\ log = <<>>
    /\ cid = ""
    /\ history_list = <<>>

CleanChain ==
    /\ pc = "clean_chain"
    /\ IF CleanRaises(chain, clean_regex)
       THEN /\ pc' = "clean_raised"
            /\ UNCHANGED <<cleaned_chain, full_text_for_history>>
       ELSE /\ pc' = "clean_returned"
            /\ cleaned_chain' = CleanedChain(chain, clean_regex)
            /\ full_text_for_history' = FullText(chain)
    /\ UNCHANGED <<has_result, chain, split_regex, clean_regex, segments, idx, stopped,
                   log, store, cid, history_list, orig, store0, other>>

NextClean == CleanChain

SpecClean == InitClean /\ [][NextClean]_vars

(***************************************************************************)
(* Two passes of on_decorating_result for replies of one origin, as tasks  *)
(* of one event loop: the variables of the pass hold the task that runs,   *)
(* other holds the task that is suspended at its await (or not started, or *)
(* finished); the plugin's configuration and the store are shared.         *)
(***************************************************************************)
ConcChains ==
    {<<Plain(<<"a", "n", "a">>)>>, <<Plain(<<"n", "a">>), Image(1)>>}

ConcStores ==
    {st \in Stores : st.cid # "" /\ st.exists}

\* a pass about to start on the event of chain c
Started(c) ==
    [pc |-> "start", has_result |-> TRUE, chain |-> c, orig |-> c,
     cleaned_chain |-> <<>>, full_text_for_history |-> <<>>, segments |-> <<>>,
     idx |-> 0, stopped |-> FALSE, log |-> <<>>, cid |-> "", history_list |-> <<>>]

\* the locals and the event of the running pass
Running ==
    [pc |-> pc, has_result |-> has_result, chain |-> chain, orig |-> orig,
     cleaned_chain |-> cleaned_chain, full_text_for_history |-> full_text_for_history,
     segments |-> segments, idx |-> idx, stopped |-> stopped, log |-> log,
     cid |-> cid, history_list |-> history_list]

InitConc ==
    /\ pc = "start"
    /\ has_result = TRUE
    /\ chain \in ConcChains
    /\ orig = chain
    /\ cleaned_chain = <<>>
    /\ full_text_for_history = <<>>
    /\ segments = <<>>
    /\ idx = 0
    /\ stopped = FALSE
    /\ log = <<>>
    /\ cid = ""
    /\ history_list = <<>>
    /\ other \in {Started(c) : c \in ConcChains}
    /\ split_regex = "\\n"
    /\ clean_regex \in {"", "a+"}
    /\ store \in ConcStores
    /\ store0 = store

\* the event loop resumes the other pass: the running one is at an await, has
\* not started or has returned
Switch ==
    /\ other.pc # "idle"
    /\ other' = Running
    /\ pc' = other.pc
    /\ has_result' = other.has_result
    /\ chain' = other.chain
    /\ orig' = other.orig
    /\ cleaned_chain' = other.cleaned_chain
    /\ full_text_for_history' = other.full_text_for_history
    /\ segments' = other.segments
    /\ idx' = other.idx
    /\ stopped' = other.stopped
    /\ log' = other.log
    /\ cid' = other.cid
    /\ history_list' = other.history_list
    /\ UNCHANGED <<split_regex, clean_regex, store, store0>>

NextConc ==
    \/ OnDecoratingResult
    \/ GetCurrConversationId
    \/ GetConversation
    \/ UpdateConversation
    \/ SendMessage
    \/ Sleep
    \/ Switch

SpecConc == InitConc /\ [][NextConc]_vars

----------------------------------------------------------------------------
(* Properties of split_chain (SpecSplit) *)

\* the components of all segments, in segment order and item order
Flatten(segs) == Concat(segs)

\* a cleaned chain has no Plain component with empty text (lines 45-46)
IsCleanedChain(c) == \A k \in 1..Len(c) : IsPlain(c[k]) => Truthy(c[k].text)

\* the text of every Plain component of c with the matches of pattern removed
RECURSIVE TextWithoutMatches(_, _)
TextWithoutMatches(c, pattern) ==
    IF c = <<>> THEN <<>>
    ELSE (IF IsPlain(Head(c)) THEN re_sub(pattern, Head(c).text) ELSE <<>>)
         \o TextWithoutMatches(Tail(c), pattern)

\* C1 (Reconstruction): for a cleaned chain, the texts of all Plain components
\* of all returned segments, concatenated in segment order and item order, are
\* the texts of the chain's Plain components with every match of the split
\* pattern removed.
C1_Reconstruction ==
    (pc = "split_returned" /\ IsCleanedChain(chain))
        => FullText(Flatten(segments)) = TextWithoutMatches(chain, split_regex)

\* the components a single component contributes to the segments: itself, or,
\* for a Plain component the pattern matches in, its non-empty parts
RECURSIVE NonEmptyParts(_)
NonEmptyParts(parts) ==
    IF parts = <<>> THEN <<>>
    ELSE (IF Truthy(Head(parts)) THEN <<Plain(Head(parts))>> ELSE <<>>)
         \o NonEmptyParts(Tail(parts))

Fragments(component, pattern) ==
    IF IsPlain(component) /\ Len(re_split(pattern, component.text)) > 1
    THEN NonEmptyParts(re_split(pattern, component.text))
    ELSE <<component>>

RECURSIVE AllFragments(_, _)
AllFragments(c, pattern) ==
    IF c = <<>> THEN <<>>
    ELSE Fragments(Head(c), pattern) \o AllFragments(Tail(c), pattern)

IsOpaque(component) == ~IsPlain(component)

\* C2 (OpaqueItem preservation): the segments flattened in order are the
\* chain with every Plain component replaced by its text fragments, so every
\* opaque component is there unchanged, exactly once, and between the same
\* fragments and opaque components as in the chain.
C2_OpaquePreserved ==
    pc = "split_returned"
        => /\ Flatten(segments) = AllFragments(chain, split_regex)
           /\ SelectSeq(Flatten(segments), IsOpaque) = SelectSeq(chain, IsOpaque)

\* an opaque component between two texts, the second of which is split
C2_Witness ==
    /\ pc = "split_returned"
    /\ Len(chain) = 3
    /\ IsPlain(chain[1]) /\ IsOpaque(chain[2]) /\ IsPlain(chain[3])
    /\ Len(segments) = 2
    /\ Len(segments[1]) = 2
    /\ IsOpaque(segments[1][2])

----------------------------------------------------------------------------
(* Properties of a pass (Spec, FairSpec) *)

IsSend(e) == e.op = "send_message"
IsDelivery(e) == e.op \in {"send_message", "sleep"}
IsStoreCall(e) ==
    e.op \in {"get_curr_conversation_id", "get_conversation", "update_conversation"}

\* the transport calls, and the transport calls and delays, in order
Sends == SelectSeq(log, IsSend)
Deliveries == SelectSeq(log, IsDelivery)

\* a non-empty unit without an empty text
WellFormedUnit(u) ==
    /\ Truthy(u)
    /\ \A k \in 1..Len(u) : IsPlain(u[k]) => Truthy(u[k].text)

\* every segment has been handed to the transport
AllAttempted ==
    \A i \in 1..Len(segments) : \E k \in 1..Len(Sends) : Sends[k].i = i

\* the pass has decided to deliver the reply itself and has not finished
TakenOver ==
    pc \in {"get_curr_conversation_id", "get_conversation", "update_conversation",
            "send_message", "sleep"}

\* C3 (Empty-fragment suppression): no unit handed to the transport, and no
\* segment produced in a pass, is an empty list or holds a Plain component
\* whose text is empty.
C3_NoEmptyFragments ==
    /\ \A k \in 1..Len(Sends) : WellFormedUnit(Sends[k].mc)
    /\ \A j \in 1..Len(segments) : WellFormedUnit(segments[j])

\* a finished pass that delivered something although a text of the original
\* chain was empty, or was emptied by the cleaning
C3_Witness ==
    /\ pc = "done"
    /\ Len(Sends) >= 2
    /\ \E k \in 1..Len(orig) :
          IsPlain(orig[k]) /\ ~Truthy(CleanText(clean_regex, orig[k].text))
    /\ \E k \in 1..Len(orig) : IsPlain(orig[k]) /\ ~Truthy(orig[k].text)

\* C4 (Takeover): a pass that is not the no-op case ends with the transport
\* called exactly once for each segment, in order and with that segment's
\* items, the original chain empty and the event stopped; only the no-op
\* case ends otherwise.
C4_Takeover ==
    /\ pc = "done"
          => /\ Len(Sends) = Len(segments)
             /\ \A k \in 1..Len(Sends) : Sends[k].i = k /\ Sends[k].mc = segments[k]
             /\ chain = <<>>
             /\ stopped
    /\ pc = "returned_noop" => (Len(segments) <= 1 /\ clean_regex = "")

\* a takeover of three units, one of which the transport refused
C4_Witness ==
    /\ pc = "done"
    /\ Len(segments) = 3
    /\ \E k \in 1..Len(Sends) : ~Sends[k].ok
    /\ orig # <<>>

\* C5 (No-op path): when the segmentation yields at most one unit and no clean
\* pattern is configured, the pass returns with the original chain as it was,
\* the stored history as it was, no transport call, no delay and the event
\* not stopped.
C5_NoOp ==
    (pc \notin {"start", "returned_early", "raised"}
     /\ Len(segments) <= 1 /\ clean_regex = "")
        => /\ pc = "returned_noop"
           /\ chain = orig
           /\ store = store0
           /\ log = <<>>
           /\ ~stopped

\* a chain of a text and an image that the split pattern does not match in
C5_Witness ==
    /\ pc = "returned_noop"
    /\ Len(segments) = 1
    /\ Len(chain) >= 2
    /\ HasPlain(chain)
    /\ store.exists

\* C6 (Ordered delivery with delay): the units are attempted in list order and
\* every attempt but the first comes right after a delay, also when the
\* attempt before it failed.
C6_OrderedWithDelay ==
    /\ \A k \in 1..Len(Sends) : Sends[k].i = k
    /\ \A k \in 2..Len(Deliveries) :
          IsSend(Deliveries[k]) => Deliveries[k - 1].op = "sleep"

\* C7 (Independent delivery failures): a failed attempt for a unit that is not
\* the last is followed by the attempt for the next unit, and a finished
\* takeover has attempted every unit.
C7_IndependentFailures ==
    /\ pc = "done" => AllAttempted
    /\ \A k \in 1..Len(Sends) :
          (~Sends[k].ok /\ Sends[k].i < Len(segments))
              => IF k < Len(Sends)
                 THEN Sends[k + 1].i = Sends[k].i + 1
                 ELSE pc = "send_message" /\ idx = Sends[k].i + 1

\* three units, the first two refused by the transport, the third delivered
C7_Witness ==
    /\ pc = "done"
    /\ Len(Sends) = 3
    /\ ~Sends[1].ok /\ ~Sends[2].ok /\ Sends[3].ok

\* the texts of the Plain components of the chain the host produced
OriginalText ==
    Concat([k \in 1..Len(orig) |-> IF IsPlain(orig[k]) THEN orig[k].text ELSE <<>>])

IsAssistantRecord(r) == r.role = "assistant"

\* C8 (History content): the list handed to update_conversation ends with the
\* record of role "assistant" whose content is the concatenated text of the
\* original chain's Plain components; the store changes only by a successful
\* update_conversation, called at most once, after which the stored list ends
\* with that record and holds no other assistant record.
C8_HistoryContent ==
    /\ pc = "update_conversation"
          => /\ history_list # <<>>
             /\ history_list[Len(history_list)] =
                    [role |-> "assistant", content |-> OriginalText]
    /\ Len(SelectSeq(log, LAMBDA e : e.op = "update_conversation")) <= 1
    /\ store # store0
          => /\ \E k \in 1..Len(log) : log[k].op = "update_conversation" /\ log[k].ok
             /\ store.history.fmt = "list"
             /\ store.history.val # <<>>
             /\ store.history.val[Len(store.history.val)] =
                    [role |-> "assistant", content |-> OriginalText]
             /\ Len(SelectSeq(store.history.val, IsAssistantRecord)) = 1
    /\ (\E k \in 1..Len(log) : log[k].op = "update_conversation" /\ log[k].ok)
          => store # store0

\* a record written in a pass that cleaned text away and split into two units
C8_Witness ==
    /\ store # store0
    /\ clean_regex # ""
    /\ Len(segments) = 2
    /\ Len(OriginalText) > Len(Concat([k \in 1..Len(Flatten(segments)) |->
                                          Flatten(segments)[k].text]))
    /\ store0.history.fmt = "list"

\* C9 (No propagation after takeover): a pass that has taken over never raises
\* into the host and reaches the end, where every unit has been attempted, the
\* original chain is empty and the event is stopped.
C9_RunsToCompletion ==
    /\ [][TakenOver => pc' # "raised"]_vars
    /\ TakenOver ~> (pc = "done" /\ AllAttempted /\ chain = <<>> /\ stopped)

\* finished after a store call raised and the transport refused a unit
C9_Witness ==
    /\ pc = "done"
    /\ \E k \in 1..Len(log) : IsStoreCall(log[k]) /\ ~log[k].ok
    /\ \E k \in 1..Len(Sends) : ~Sends[k].ok
    /\ Len(Sends) >= 2

\* no current conversation, no conversation to fetch, or a store call raised
HistorySkipped ==
    \/ store0.cid = ""
    \/ ~store0.exists
    \/ \E k \in 1..Len(log) : IsStoreCall(log[k]) /\ ~log[k].ok

\* C10 (History capture skipped, not fatal): when the origin has no current
\* conversation, the conversation cannot be fetched or a store call raises,
\* the stored history stays as it was, and the pass ends with every unit
\* attempted, the original chain empty and the event stopped.
C10_HistorySkipped ==
    (TakenOver \/ pc = "done") /\ HistorySkipped
        => /\ store = store0
           /\ pc = "done" => (AllAttempted /\ chain = <<>> /\ stopped)

\* update_conversation raised for a conversation with history, two units sent
C10_Witness ==
    /\ pc = "done"
    /\ \E k \in 1..Len(log) : log[k].op = "update_conversation" /\ ~log[k].ok
    /\ store0.history.fmt = "list"
    /\ Len(Sends) = 2

(***************************************************************************)
(* C11: for every chain and every non-empty clean pattern the cleaned      *)
(* chain holds, in the original order, every non-Plain component unchanged *)
(* and, for each Plain, a Plain whose text is the original with every      *)
(* match of one non-overlapping left-to-right pass removed, a Plain whose  *)
(* text became empty being left out; with an empty clean pattern the text  *)
(* of every Plain is what it was.                                          *)
(***************************************************************************)
\* the characters of text outside every match of the pattern
TextOutsideMatches(pattern, text) ==
    LET spans == Scan(Compile(pattern).atoms, text, 1, FALSE)
        Outside(k) == \A j \in 1..Len(spans) : k < spans[j][1] \/ k >= spans[j][2]
        Keep == {k \in 1..Len(text) : Outside(k)}
        RECURSIVE Pick(_)
        Pick(k) == IF k > Len(text) THEN <<>>
                   ELSE (IF k \in Keep THEN <<text[k]>> ELSE <<>>) \o Pick(k + 1)
    IN Pick(1)

ExpectedText(pattern, text) ==
    IF pattern = "" THEN text ELSE TextOutsideMatches(pattern, text)

ExpectedCleaned(c, pattern) ==
    LET mapped == [k \in 1..Len(c) |->
                      IF IsPlain(c[k]) THEN Plain(ExpectedText(pattern, c[k].text))
                      ELSE c[k]]
        Kept(component) == IsPlain(component) => component.text # <<>>
    IN SelectSeq(mapped, Kept)

C11_CleanerContract ==
    pc = "clean_returned" =>
        /\ cleaned_chain = ExpectedCleaned(chain, clean_regex)
        /\ SelectSeq(cleaned_chain, IsOpaque) = SelectSeq(chain, IsOpaque)
        /\ chain = orig

\* a text with two separate matches, an image after it, and a dropped Plain
C11_Witness ==
    /\ pc = "clean_returned"
    /\ clean_regex = "\\s+"
    /\ Len(chain) = 3
    /\ IsPlain(chain[1]) /\ Len(chain[1].text) = 3
    /\ IsOpaque(chain[2])
    /\ IsPlain(chain[3])
    /\ Len(cleaned_chain) = 2
    /\ IsPlain(cleaned_chain[1]) /\ Len(cleaned_chain[1].text) = 1

(***************************************************************************)
(* C12: when the split pattern matches nothing (at most one segment) and   *)
(* the cleaned chain has the items and texts of the original chain, the    *)
(* pass does not take over: the chain is left as it was, nothing is sent,  *)
(* the store is not written and the event is not stopped.                  *)
(***************************************************************************)
C12_NoInterventionWhenUnchanged ==
    (pc \notin {"start", "returned_early", "raised"}
     /\ Len(segments) <= 1 /\ cleaned_chain = orig)
        => /\ pc = "returned_noop"
           /\ chain = orig
           /\ store = store0
           /\ log = <<>>
           /\ ~stopped

(***************************************************************************)
(* C13: a malformed split or clean pattern is an error of the              *)
(* configuration, raised when the plugin is constructed; it is never       *)
(* silently ignored: under a malformed pattern no reply, whatever its      *)
(* components, is passed through, taken over or delivered as if the        *)
(* configuration were sound.                                               *)
(***************************************************************************)
Malformed == ~Compile(split_regex).valid \/ ~Compile(clean_regex).valid

C13_MalformedNeverIgnored ==
    (Malformed /\ Truthy(orig)) => pc \in {"start", "raised"}

(***************************************************************************)
(* C14: when the chain holds only Plain components and the configured      *)
(* clean pattern leaves none of them a text, there are no segments, the    *)
(* transport is never called and no delay is taken, yet the pass takes     *)
(* over: save_history is entered once with the text of the original chain  *)
(* as content, and the pass ends with the chain cleared and the event      *)
(* stopped.                                                                *)
(***************************************************************************)
OnlyPlain(c) == \A k \in 1..Len(c) : IsPlain(c[k])

\* the pass went past its decision with every component cleaned away
CleanedToNothing ==
    /\ pc \notin {"start", "returned_early", "raised"}
    /\ clean_regex # ""
    /\ Truthy(orig) /\ OnlyPlain(orig)
    /\ cleaned_chain = <<>>

CallsOf(op) == Len(SelectSeq(log, LAMBDA e : e.op = op))

C14_CleanedToNothing ==
    CleanedToNothing =>
        /\ segments = <<>>
        /\ Deliveries = <<>>
        /\ pc \in {"get_curr_conversation_id", "get_conversation", "update_conversation",
                   "done"}
        /\ full_text_for_history = OriginalText
        /\ CallsOf("get_curr_conversation_id")
              = (IF pc = "get_curr_conversation_id" THEN 0 ELSE 1)
        /\ pc = "update_conversation"
              => history_list[Len(history_list)] = AssistantRecord(OriginalText)
        /\ store # store0
              => store.history.val[Len(store.history.val)] = AssistantRecord(OriginalText)
        /\ pc = "done" <=> (chain = <<>> /\ stopped)
        /\ pc # "done" => (chain = orig /\ ~stopped)

\* two texts cleaned away, the record stored and the pass ended
C14_Witness ==
    /\ CleanedToNothing
    /\ pc = "done"
    /\ Len(orig) = 2
    /\ Len(OriginalText) = 3
    /\ store # store0
    /\ chain = <<>> /\ stopped

(***************************************************************************)
(* C15: for every chain in which no Plain component's text holds a match   *)
(* of the split pattern (in particular every chain without a Plain),       *)
(* split_chain returns exactly one segment, and that segment is the chain: *)
(* every component unchanged and in its place.                             *)
(***************************************************************************)
\* the pattern has no match in the text of any Plain component of c
NoMatch(c, pattern) ==
    \A k \in 1..Len(c) :
        IsPlain(c[k]) => /\ Compile(pattern).valid
                         /\ Scan(Compile(pattern).atoms, c[k].text, 1, FALSE) = <<>>

C15_NoMatchOneUnit ==
    (pc = "split_returned" /\ NoMatch(chain, split_regex)) => segments = <<chain>>

\* C15 as amended: the same for every chain that has a component; for the
\* chain without components split_chain returns no segment at all.
C15_NoMatchOneUnitUnlessEmpty ==
    (pc = "split_returned" /\ NoMatch(chain, split_regex))
        => segments = (IF chain = <<>> THEN <<>> ELSE <<chain>>)

\* a chain of texts around an image, none of them matched
C15_Witness ==
    /\ pc = "split_returned"
    /\ NoMatch(chain, split_regex)
    /\ Len(chain) = 3
    /\ IsPlain(chain[1]) /\ Truthy(chain[1].text)
    /\ IsOpaque(chain[2])
    /\ IsPlain(chain[3]) /\ Truthy(chain[3].text)
    /\ segments = <<chain>>

(***************************************************************************)
(* C16: for every chain handed to split_chain, a Plain with an empty text  *)
(* included, and every split pattern, every returned segment has a         *)
(* component and no Plain component of a returned segment has an empty     *)
(* text.                                                                   *)
(***************************************************************************)
C16_WellFormedUnits ==
    pc = "split_returned" => \A i \in 1..Len(segments) : WellFormedUnit(segments[i])

EmptyPlain(component) == IsPlain(component) /\ component.text = <<>>

\* C16 as amended: every returned segment has a component, and a Plain with
\* an empty text is in a returned segment only as a component of the chain
\* that had an empty text and that the pattern does not match in (line
\* 143-144 appends it unchanged); a chain without such a component yields no
\* empty text.
C16_EmptyTextOnlyPassedThrough ==
    pc = "split_returned" =>
        /\ \A i \in 1..Len(segments) : Truthy(segments[i])
        /\ Len(SelectSeq(Flatten(segments), EmptyPlain))
              = (IF NoMatch(<<Plain(<<>>)>>, split_regex)
                 THEN Len(SelectSeq(chain, EmptyPlain))
                 ELSE 0)

\* an empty text passed through next to a text that was split
C16_Witness ==
    /\ pc = "split_returned"
    /\ Len(segments) >= 2
    /\ \E k \in 1..Len(chain) : EmptyPlain(chain[k])
    /\ \E k \in 1..Len(segments[1]) : EmptyPlain(segments[1][k])

(***************************************************************************)
(* C17: after save_history has run for a conversation that exists, the     *)
(* stored history is the history stored before with exactly one record     *)
(* appended at its end: every record stored before is still there, in      *)
(* order, whatever was stored before (nothing, an empty list, a list of    *)
(* records, or a text that cannot be decoded).                             *)
(***************************************************************************)
\* save_history has returned after update_conversation stored its list
HistorySaved ==
    /\ pc \in {"send_message", "sleep", "done"}
    /\ store0.cid # "" /\ store0.exists
    /\ \E k \in 1..Len(log) : log[k].op = "update_conversation" /\ log[k].ok

C17_AppendOnly ==
    HistorySaved =>
        store.history = JsonList(Append(store0.history.val, AssistantRecord(OriginalText)))

(***************************************************************************)
(* C18: when two passes that take over replies of the same origin and      *)
(* conversation interleave at their awaits, then after both have returned, *)
(* each having stored its list, the stored history holds the assistant     *)
(* record of each of them, in either order.                                *)
(***************************************************************************)
Stored(l) == \E k \in 1..Len(l) : l[k].op = "update_conversation" /\ l[k].ok

TextOf(c) == Concat([k \in 1..Len(c) |-> IF IsPlain(c[k]) THEN c[k].text ELSE <<>>])

C18_NoLostRecord ==
    (pc = "done" /\ other.pc = "done" /\ Stored(log) /\ Stored(other.log)) =>
        LET mine == AssistantRecord(TextOf(orig))
            theirs == AssistantRecord(TextOf(other.orig))
            stored == SelectSeq(store.history.val, IsAssistantRecord)
        IN /\ Len(stored) = 2
           /\ stored \in {<<mine, theirs>>, <<theirs, mine>>}

(***************************************************************************)
(* C19: in a pass that takes over, save_history is over (its update done   *)
(* or skipped) before send_message is first called, the original chain is  *)
(* cleared and the event stopped only after the attempt for the last       *)
(* segment has completed, and as long as calls, attempts and delays are    *)
(* pending the original chain holds the items it had.                      *)
(***************************************************************************)
C19_PhaseOrdering ==
    /\ \A j, k \in 1..Len(log) : (j < k /\ IsDelivery(log[j])) => ~IsStoreCall(log[k])
    /\ pc \in {"send_message", "sleep"}
          => /\ log # <<>> /\ log[1].op = "get_curr_conversation_id"
             /\ history_list # <<>> => CallsOf("update_conversation") = 1
    /\ pc \in {"get_curr_conversation_id", "get_conversation", "update_conversation"}
          => Deliveries = <<>>
    /\ TakenOver => (chain = orig /\ ~stopped)
    /\ (stopped \/ chain # orig)
          => /\ pc = "done"
             /\ stopped /\ chain = <<>>
             /\ AllAttempted
             /\ segments # <<>> => log[Len(log)] = Sends[Len(Sends)]
                                   /\ Sends[Len(Sends)].i = Len(segments)

\* the record stored, two units attempted with the delay between them, then
\* the chain cleared and the event stopped
C19_Witness ==
    /\ pc = "done"
    /\ stopped /\ chain = <<>>
    /\ store # store0
    /\ Len(segments) = 2
    /\ Len(Sends) = 2
    /\ Len(Deliveries) = 3

====
